---- MODULE Spec2Model ----
(***************************************************************************)
(* A model of icalaggregator.py: the Event object and its timestamp codec, *)
(* the IcalReader line unfolder, the _parse_ical generator and the         *)
(* Aggregator (add_feed, pull_all, generate_ical, generate_html).          *)
(*                                                                         *)
(* Conventions.                                                            *)
(*  - Python strings are TLA+ strings; TLC evaluates Len, SubSeq and \o on *)
(*    them, so prefixes, slices and strips are computed on the characters. *)
(*  - Python's None is the empty tuple and a value v that may be None is   *)
(*    the 1-tuple <<v>> (TLC refuses to compare a string with a number).   *)
(*  - An aware UTC datetime is its number of seconds since 1970-01-01      *)
(*    00:00:00 UTC; a date is a number of days since 1970-01-01.           *)
(*  - A pixel length is kept in tenths of a pixel (1.7 px is 17).          *)
(***************************************************************************)
EXTENDS Integers, Sequences, FiniteSets, TLC

VARIABLES
    event,      \* SpecEvent: one Event object
    raised,     \* SpecEvent: outcome of the last Event method call
    encoded,    \* SpecEvent: the last string returned by getstart()/getend()
    r,          \* SpecParse: the IcalReader of a running _parse_ical (its lines)
    l,          \* SpecParse: the local l of _parse_ical, the last readline() result
    currevent,  \* SpecParse: the local currevent of _parse_ical
    yielded,    \* SpecParse: the events the generator has yielded so far
    pstate,     \* SpecParse: where the generator is: running, done or the exception
    web,        \* what urlopen(url) serves for each url: the physical lines
    feeds,      \* Aggregator.feeds
    events,     \* Aggregator.events
    timezone,   \* Aggregator.timezone (utc offset of the display timezone, seconds)
    timezone_adjust, \* Aggregator.timezone_adjust (hours)
    pc,         \* position of __main__: "config", "pulled", "ical", "html", "failed"
    ical,       \* the last result of generate_ical (None before)
    html        \* the last result of generate_html (None before)

vars == <<event, raised, encoded, r, l, currevent, yielded, pstate,
          web, feeds, events, timezone, timezone_adjust, pc, ical, html>>

eventVars == <<event, raised, encoded>>
parseVars == <<r, l, currevent, yielded, pstate>>
aggVars   == <<web, feeds, events, pc, ical, html>>

None == <<>>
Some(v) == <<v>>

(***************************************************************************)
(* Python string methods used by the program.                              *)
(***************************************************************************)
Char(s, i) == SubSeq(s, i, i)

\* the characters str.strip() removes that a TLA+ string can hold
Whitespace == {" ", "\t", "\n", "\r", "\f"}

RECURSIVE rstrip(_)
rstrip(s) ==
    IF Len(s) > 0 /\ Char(s, Len(s)) \in Whitespace
    THEN rstrip(SubSeq(s, 1, Len(s) - 1))
    ELSE s

RECURSIVE lstrip(_)
lstrip(s) ==
    IF Len(s) > 0 /\ Char(s, 1) \in Whitespace
    THEN lstrip(SubSeq(s, 2, Len(s)))
    ELSE s

startswith(s, p) == Len(s) >= Len(p) /\ SubSeq(s, 1, Len(p)) = p

\* s[n:]
SliceFrom(s, n) == SubSeq(s, n + 1, Len(s))

\* s.replace(old, new): leftmost, non-overlapping occurrences
RECURSIVE replace(_, _, _)
replace(s, old, new) ==
    IF Len(s) = 0 THEN s
    ELSE IF startswith(s, old)
         THEN new \o replace(SliceFrom(s, Len(old)), old, new)
         ELSE Char(s, 1) \o replace(SliceFrom(s, 1), old, new)

(***************************************************************************)
(* datetime: the proleptic Gregorian calendar, strptime and strftime with  *)
(* the format "%Y%m%dT%H%M%SZ".                                            *)
(***************************************************************************)
Digits == "0123456789"

DigitChars == {Char(Digits, d + 1) : d \in 0..9}

IsDigit(c) == c \in DigitChars

DigitTable == [c \in DigitChars |-> CHOOSE d \in 0..9 : Char(Digits, d + 1) = c]

DigitVal(c) == DigitTable[c]

RECURSIVE AllDigits(_)
AllDigits(s) == Len(s) = 0 \/ (IsDigit(Char(s, 1)) /\ AllDigits(SliceFrom(s, 1)))

RECURSIVE ToInt(_)
ToInt(s) ==
    IF Len(s) = 0 THEN 0
    ELSE 10 * ToInt(SubSeq(s, 1, Len(s) - 1)) + DigitVal(Char(s, Len(s)))

\* "%0<w>d" % n, for 0 <= n < 10^w
RECURSIVE Pad(_, _)
Pad(n, w) ==
    IF w = 0 THEN ""
    ELSE Pad(n \div 10, w - 1) \o Char(Digits, (n % 10) + 1)

IsLeap(y) == (y % 4 = 0 /\ y % 100 # 0) \/ y % 400 = 0

DaysInMonth(y, m) ==
    IF m = 2 THEN (IF IsLeap(y) THEN 29 ELSE 28)
    ELSE IF m \in {4, 6, 9, 11} THEN 30 ELSE 31

\* days since 1970-01-01 of the date y-m-d
DaysFromCivil(y, m, d) ==
    LET yy  == IF m <= 2 THEN y - 1 ELSE y
        era == yy \div 400
        yoe == yy - era * 400
        mp  == IF m > 2 THEN m - 3 ELSE m + 9
        doy == (153 * mp + 2) \div 5 + d - 1
        doe == yoe * 365 + yoe \div 4 - yoe \div 100 + doy
    IN  era * 146097 + doe - 719468

\* the date (year, month, day) of a number of days since 1970-01-01
CivilFromDays(z) ==
    LET zz  == z + 719468
        era == zz \div 146097
        doe == zz - era * 146097
        yoe == (doe - doe \div 1460 + doe \div 36524 - doe \div 146096) \div 365
        doy == doe - (365 * yoe + yoe \div 4 - yoe \div 100)
        mp  == (5 * doy + 2) \div 153
        d   == doy - (153 * mp + 2) \div 5 + 1
        m   == IF mp < 10 THEN mp + 3 ELSE mp - 9
        y   == yoe + era * 400 + (IF m <= 2 THEN 1 ELSE 0)
    IN  [year |-> y, month |-> m, day |-> d]

SecondsPerDay == 24 * 3600

\* datetime.strptime(v, "%Y%m%dT%H%M%SZ") then utc.localize: Some(instant), or
\* None where strptime raises ValueError.  Fields are taken at their full width.
strptime(v) ==
    IF ~(Len(v) = 16 /\ AllDigits(SubSeq(v, 1, 8)) /\ Char(v, 9) = "T"
           /\ AllDigits(SubSeq(v, 10, 15)) /\ Char(v, 16) = "Z")
    THEN None
    ELSE LET y  == ToInt(SubSeq(v, 1, 4))
             mo == ToInt(SubSeq(v, 5, 6))
             d  == ToInt(SubSeq(v, 7, 8))
             h  == ToInt(SubSeq(v, 10, 11))
             mi == ToInt(SubSeq(v, 12, 13))
             s  == ToInt(SubSeq(v, 14, 15))
         IN  IF y >= 1 /\ mo \in 1..12 /\ d >= 1 /\ d <= DaysInMonth(y, mo)
                  /\ h <= 23 /\ mi <= 59 /\ s <= 59
             THEN Some(DaysFromCivil(y, mo, d) * SecondsPerDay + h * 3600 + mi * 60 + s)
             ELSE None

\* v.strftime("%Y%m%dT%H%M%SZ")
strftime(t) ==
    LET c   == CivilFromDays(t \div SecondsPerDay)
        sod == t % SecondsPerDay
    IN  Pad(c.year, 4) \o Pad(c.month, 2) \o Pad(c.day, 2) \o "T"
          \o Pad(sod \div 3600, 2) \o Pad((sod % 3600) \div 60, 2) \o Pad(sod % 60, 2) \o "Z"

\* t.astimezone(tz).date(), tz a fixed utc offset in seconds
DateIn(t, tz) == (t + tz) \div SecondsPerDay

\* t.date() of a UTC datetime
UtcDate(t) == t \div SecondsPerDay

(***************************************************************************)
(* class Event                                                             *)
(***************************************************************************)
\* Event.__init__
Event(tz, adj) ==
    [timezone |-> tz, timezone_adjust |-> adj,
     summary |-> None, start |-> None, end |-> None, location |-> None]

\* Event._parse_time: None where strptime raises ValueError
_parse_time(self, v) ==
    LET naive == strptime(v)
    IN  IF naive = None THEN None
        ELSE Some(naive[1] + 3600 * self.timezone_adjust)

\* a _print_time that drops the seconds ("%Y%m%dT%H%M00Z")
_print_time_no_seconds(self, v) == strftime(v - (v % 60))

\* Event._print_time
_print_time(self, v) == strftime(v)

\* Event.setstart, Event.setend: the event after the call (v parses)
setstart(self, v) == [self EXCEPT !.start = _parse_time(self, v)]

setend(self, v) == [self EXCEPT !.end = _parse_time(self, v)]

\* Event.getstart, Event.getend (the field is set)
getstart(self) == _print_time(self, self.start[1])

getend(self) == _print_time(self, self.end[1])

\* the value _parse_ical stores for a "SUMMARY:" line
SummaryOf(line) == replace(SliceFrom(line, 8), "\\,", ",")

\* a validate that compares the UTC dates, not those of the display timezone
validate_utc_dates(self) ==
    IF self.summary = None \/ self.summary[1] = "" THEN "Summary not set"
    ELSE IF self.start = None THEN "Start not set"
    ELSE IF self.end = None THEN "End not set"
    ELSE IF UtcDate(self.start[1]) # UtcDate(self.end[1])
         THEN "Can't deal with cross-day events"
         ELSE "ok"

\* Event.validate: "ok", or the message of the Exception it raises.
\* "not x" is true of None and of the empty string; a datetime is never false.
validate(self) ==
    IF self.summary = None \/ self.summary[1] = "" THEN "Summary not set"
    ELSE IF self.start = None THEN "Start not set"
    ELSE IF self.end = None THEN "End not set"
    ELSE IF DateIn(self.start[1], self.timezone) # DateIn(self.end[1], self.timezone)
         THEN "Can't deal with cross-day events"
         ELSE "ok"

(***************************************************************************)
(* Inputs.                                                                 *)
(***************************************************************************)
\* utc offsets of the display timezones drawn: UTC and a zone two hours east
TimezoneOffsets == {0, 7200}

\* values of timezone_adjust_hours drawn
AdjustHours == {-1, 0, 1}

\* the values of DTSTART: and DTEND: lines drawn
TimeValues ==
    {"20100510T120059Z", "20100510T213000Z", "20100510T223000Z",
     "20100510T233000Z", "20100511T003000Z", "garbage"}

\* the instants of the well-formed ones
ParsedTimeValues == {strptime(v)[1] : v \in {w \in TimeValues : strptime(w) # None}}

\* the SUMMARY: lines drawn
SummaryLines == {"SUMMARY:", "SUMMARY:Keynote", "SUMMARY:Lunch\\, with sponsors"}

\* how many times a printed timestamp may be parsed again
MaxReencode == 1

\* t is stored by parsing a feed value, or by at most MaxReencode rounds of
\* printing the stored instant and parsing the string again
InReach(t, adj) ==
    \E k \in 0..MaxReencode : (t - 3600 * adj * (k + 1)) \in ParsedTimeValues

(***************************************************************************)
(* SpecEvent, SpecCodec: one Event object and the calls made on it.        *)
(***************************************************************************)
Call(name, exc) == [call |-> name, exc |-> exc]

idleParse == /\ r = <<>> /\ l = None /\ currevent = None /\ yielded = <<>> /\ pstate = "none"

idleEvent == /\ event = None /\ raised = None /\ encoded = None

idleAgg == /\ web = <<>> /\ feeds = <<>> /\ events = <<>> /\ pc = "none" /\ ical = None /\ html = None

InitEvent ==
    /\ \E tz \in TimezoneOffsets, adj \in AdjustHours : event = Event(tz, adj)
    /\ raised = Call("__init__", "ok")
    /\ encoded = None
    /\ timezone = event.timezone
    /\ timezone_adjust = event.timezone_adjust
    /\ idleParse
    /\ idleAgg

\* the strings a caller passes to setstart/setend: feed values, or a string the
\* event itself printed
SetValues == TimeValues \cup (IF encoded = None THEN {} ELSE {encoded[1]})

EvSetStart ==
    \E v \in SetValues :
        LET t == _parse_time(event, v)
        IN  /\ IF t = None
               THEN event' = event /\ raised' = Call("setstart", "ValueError")
               ELSE /\ InReach(t[1], event.timezone_adjust)
                    /\ event' = setstart(event, v)
                    /\ raised' = Call("setstart", "ok")
            /\ UNCHANGED <<encoded, parseVars, aggVars, timezone, timezone_adjust>>

EvSetEnd ==
    \E v \in SetValues :
        LET t == _parse_time(event, v)
        IN  /\ IF t = None
               THEN event' = event /\ raised' = Call("setend", "ValueError")
               ELSE /\ InReach(t[1], event.timezone_adjust)
                    /\ event' = setend(event, v)
                    /\ raised' = Call("setend", "ok")
            /\ UNCHANGED <<encoded, parseVars, aggVars, timezone, timezone_adjust>>

\* currevent.summary = l[8:].replace('\,', ',')
EvSetSummary ==
    \E line \in SummaryLines :
        /\ event' = [event EXCEPT !.summary = Some(SummaryOf(line))]
        /\ raised' = Call("summary", "ok")
        /\ UNCHANGED <<encoded, parseVars, aggVars, timezone, timezone_adjust>>

\* getstart() of an event with no start: None has no strftime
EvGetStart ==
    /\ IF event.start = None
       THEN encoded' = encoded /\ raised' = Call("getstart", "AttributeError")
       ELSE encoded' = Some(getstart(event)) /\ raised' = Call("getstart", "ok")
    /\ UNCHANGED <<event, parseVars, aggVars, timezone, timezone_adjust>>

EvGetEnd ==
    /\ IF event.end = None
       THEN encoded' = encoded /\ raised' = Call("getend", "AttributeError")
       ELSE encoded' = Some(getend(event)) /\ raised' = Call("getend", "ok")
    /\ UNCHANGED <<event, parseVars, aggVars, timezone, timezone_adjust>>

EvValidate ==
    /\ raised' = Call("validate", validate(event))
    /\ UNCHANGED <<event, encoded, parseVars, aggVars, timezone, timezone_adjust>>

NextEvent ==
    \/ EvSetStart
    \/ EvSetEnd
    \/ EvSetSummary
    \/ EvValidate

SpecEvent == InitEvent /\ [][NextEvent]_vars

NextCodec ==
    \/ EvSetStart
    \/ EvSetEnd
    \/ EvGetStart
    \/ EvGetEnd

SpecCodec == InitEvent /\ [][NextCodec]_vars

(***************************************************************************)
(* class IcalReader                                                        *)
(***************************************************************************)
\* IcalReader.__init__: f is what f.readlines() returns, the physical lines
IcalReader(f) == [i \in 1..Len(f) |-> rstrip(f[i])]

\* the while loop of IcalReader.readline, s the text written so far
RECURSIVE readline_loop(_, _)
readline_loop(s, lines) ==
    LET s2   == s \o lstrip(Head(lines))
        rest == Tail(lines)
    IN  IF rest = <<>> \/ ~startswith(rest[1], " ")
        THEN [value |-> Some(s2), lines |-> rest]
        ELSE readline_loop(s2, rest)

\* IcalReader.readline: the value returned and the lines left
readline(lines) ==
    IF Len(lines) = 0 THEN [value |-> None, lines |-> lines]
    ELSE readline_loop("", lines)

(***************************************************************************)
(* Aggregator._parse_ical, a generator: its frame is the reader, currevent *)
(* and where it stands; yielded collects what it has yielded.              *)
(***************************************************************************)
Frame(lines, line, cur, out, st) ==
    [r |-> lines, l |-> line, currevent |-> cur, yielded |-> out, pstate |-> st]

\* one iteration of the while loop on the logical line g.l (not None, not "")
parse_line(g, tz, adj) ==
    LET line == g.l[1] IN
    IF line = "END:VCALENDAR" THEN [g EXCEPT !.pstate = "done"]
    ELSE IF line = "BEGIN:VEVENT"
    THEN IF g.currevent # None
         THEN [g EXCEPT !.pstate = "Recursive events?!"]
         ELSE [g EXCEPT !.currevent = Some(Event(tz, adj))]
    ELSE IF line = "END:VEVENT"
    THEN IF g.currevent = None
         THEN [g EXCEPT !.pstate = "End of nonexisting event?!"]
         ELSE LET outcome == validate(g.currevent[1])
              IN  IF outcome # "ok"
                  THEN [g EXCEPT !.pstate = outcome]
                  ELSE [g EXCEPT !.yielded = Append(@, g.currevent[1]), !.currevent = None]
    ELSE IF startswith(line, "DTSTART:")
    THEN IF g.currevent = None
         THEN [g EXCEPT !.pstate = "AttributeError"]
         ELSE LET t == _parse_time(g.currevent[1], SliceFrom(line, 8))
              IN  IF t = None
                  THEN [g EXCEPT !.pstate = "ValueError"]
                  \* currevent.setstart(l[8:])
                  ELSE [g EXCEPT !.currevent = Some([g.currevent[1] EXCEPT !.start = t])]
    ELSE IF startswith(line, "DTEND:")
    THEN IF g.currevent = None
         THEN [g EXCEPT !.pstate = "AttributeError"]
         ELSE LET t == _parse_time(g.currevent[1], SliceFrom(line, 6))
              IN  IF t = None
                  THEN [g EXCEPT !.pstate = "ValueError"]
                  \* currevent.setend(l[6:])
                  ELSE [g EXCEPT !.currevent = Some([g.currevent[1] EXCEPT !.end = t])]
    ELSE IF startswith(line, "SUMMARY:")
    THEN IF g.currevent = None
         THEN [g EXCEPT !.pstate = "AttributeError"]
         ELSE [g EXCEPT !.currevent = Some([g.currevent[1] EXCEPT !.summary = Some(SummaryOf(line))])]
    ELSE g

\* a loop that leaves with break, not raise, when the input ends
parse_step_break_at_end(g, tz, adj) ==
    LET rl == readline(g.r)
        g2 == [g EXCEPT !.r = rl.lines, !.l = rl.value]
    IN  IF g2.l = None \/ g2.l[1] = ""
        THEN [g2 EXCEPT !.pstate = "done"]
        ELSE parse_line(g2, tz, adj)

\* one iteration of the while loop: read a logical line and act on it
parse_step(g, tz, adj) ==
    LET rl == readline(g.r)
        g2 == [g EXCEPT !.r = rl.lines, !.l = rl.value]
    IN  IF g2.l = None \/ g2.l[1] = ""
        THEN [g2 EXCEPT !.pstate = "End of stream"]
        ELSE parse_line(g2, tz, adj)

\* the generator consumed to its end
RECURSIVE _parse_ical(_, _, _)
_parse_ical(g, tz, adj) ==
    IF g.pstate # "running" THEN g
    ELSE _parse_ical(parse_step(g, tz, adj), tz, adj)

(***************************************************************************)
(* SpecParse: _parse_ical run on one stream, one loop iteration a step.    *)
(***************************************************************************)
\* the pieces streams are made of
Segments ==
    { <<"BEGIN:VEVENT\r\n">>,
      <<"DTSTART:20100510T213000Z\r\n", "DTEND:20100510T223059Z\r\n">>,
      <<"SUMMARY:Lunch\\, with\r\n", "  sponsors\r\n">>,
      <<"END:VEVENT\r\n">>,
      <<"END:VCALENDAR\r\n">>,
      <<"END:VCAL\r\n", " ENDAR\r\n">>,
      <<"X-WR-CALNAME:Room A\r\n">>,
      <<"\r\n">> }

\* how many pieces a stream has at most
MaxSegments == 4

RECURSIVE Streams(_)
Streams(n) ==
    IF n = 0 THEN {<<>>}
    ELSE LET shorter == Streams(n - 1)
         IN  shorter \cup {f \o seg : f \in shorter, seg \in Segments}

InitParse ==
    /\ timezone \in TimezoneOffsets
    /\ timezone_adjust = 0
    /\ \E f \in Streams(MaxSegments) : r = IcalReader(f)
    /\ l = None
    /\ currevent = None
    /\ yielded = <<>>
    /\ pstate = "running"
    /\ idleEvent
    /\ idleAgg

ParseStep ==
    /\ pstate = "running"
    /\ LET g == parse_step(Frame(r, l, currevent, yielded, pstate), timezone, timezone_adjust)
       IN  /\ r' = g.r
           /\ l' = g.l
           /\ currevent' = g.currevent
           /\ yielded' = g.yielded
           /\ pstate' = g.pstate
    /\ UNCHANGED <<eventVars, aggVars, timezone, timezone_adjust>>

NextParse == ParseStep

SpecParse == InitParse /\ [][NextParse]_vars

(***************************************************************************)
(* class Aggregator                                                        *)
(***************************************************************************)
\* compare_events: cmp(a.start, b.start)
compare_events(a, b) ==
    IF a.start[1] < b.start[1] THEN -1
    ELSE IF a.start[1] > b.start[1] THEN 1 ELSE 0

\* an insertion that puts an element before those it compares equal to
RECURSIVE insert_before_equal(_, _)
insert_before_equal(sorted, e) ==
    IF sorted = <<>> THEN <<e>>
    ELSE IF compare_events(sorted[Len(sorted)], e) < 0
         THEN Append(sorted, e)
         ELSE Append(insert_before_equal(SubSeq(sorted, 1, Len(sorted) - 1), e),
                     sorted[Len(sorted)])

\* list.sort(cmp) is stable: an element goes behind those that do not compare greater
RECURSIVE insert_sorted(_, _)
insert_sorted(sorted, e) ==
    IF sorted = <<>> THEN <<e>>
    ELSE IF compare_events(sorted[Len(sorted)], e) <= 0
         THEN Append(sorted, e)
         ELSE Append(insert_sorted(SubSeq(sorted, 1, Len(sorted) - 1), e), sorted[Len(sorted)])

RECURSIVE sort(_)
sort(list) ==
    IF list = <<>> THEN <<>>
    ELSE insert_sorted(sort(SubSeq(list, 1, Len(list) - 1)), list[Len(list)])

\* the inner loop of pull_all on one feed: the events the parser yields, each
\* given the feed's name as location
tag(yielded_events, feed) ==
    [i \in 1..Len(yielded_events) |-> [yielded_events[i] EXCEPT !.location = Some(feed)]]

\* the outer loop of pull_all from feed i on: the events list, and whether an
\* exception left the loop (the events yielded before it stay appended)
RECURSIVE pull_from(_, _, _, _, _, _)
pull_from(i, fds, served, evs, tz, adj) ==
    IF i > Len(fds) THEN [events |-> evs, exc |-> "ok"]
    ELSE LET f == served[fds[i][2]]
             g == _parse_ical(Frame(IcalReader(f), None, None, <<>>, "running"), tz, adj)
             appended == evs \o tag(g.yielded, fds[i][1])
         IN  IF g.pstate # "done"
             THEN [events |-> appended, exc |-> g.pstate]
             ELSE pull_from(i + 1, fds, served, appended, tz, adj)

col_width == 150

headersize == 30

\* Aggregator._timediff_to_y_pixels, in tenths of a pixel.  timedelta.seconds
\* is the seconds field of the normalised difference, in 0..86399
_timediff_to_y_pixels(t, compareto) ==
    (((t - compareto) % SecondsPerDay) \div 60) * 17

\* a pixel length in tenths of a pixel
Tenths(px) == 10 * px

\* rooms[self.feeds[i][0]] = i, for i in range(len(feeds)): the last index wins
rooms_of(fds) ==
    [n \in {fds[i][1] : i \in 1..Len(fds)} |->
        CHOOSE i \in 0..(Len(fds) - 1) :
            /\ fds[i + 1][1] = n
            /\ \A j \in 0..(Len(fds) - 1) : fds[j + 1][1] = n => j <= i]

\* strftime("%H:%M") of t.astimezone(tz)
HourMinute(t, tz) ==
    LET sod == (t + tz) % SecondsPerDay
    IN  Pad(sod \div 3600, 2) \o ":" \o Pad((sod % 3600) \div 60, 2)

\* the indexes of the events that start on the UTC date day, in list order
OnDay(evs, day) == {i \in 1..Len(evs) : UtcDate(evs[i].start[1]) = day}

SetMin(S) == CHOOSE x \in S : \A y \in S : x <= y

SetMax(S) == CHOOSE x \in S : \A y \in S : y <= x

\* the body of "for day in sorted(days)" for one day.  The session blocks come
\* out in the order of sorted(self.events), the interpreter's order of objects
\* without a comparison method, so they are kept as a set, each with the index
\* of its event in self.events.
html_day(fds, evs, tz, day) ==
    LET rooms     == rooms_of(fds)
        firsttime == evs[SetMin(OnDay(evs, day))].start[1]
        lasttime  == evs[SetMax(OnDay(evs, day))].end[1]
    IN  [day       |-> day,
         firsttime |-> firsttime,
         lasttime  |-> lasttime,
         width     |-> Cardinality(DOMAIN rooms) * col_width,
         height    |-> _timediff_to_y_pixels(lasttime, firsttime) + Tenths(headersize),
         headers   |-> {[left |-> rooms[n] * col_width, width |-> col_width - 2, name |-> n]
                            : n \in DOMAIN rooms},
         blocks    |-> {[event  |-> i,
                         top    |-> _timediff_to_y_pixels(evs[i].start[1], firsttime)
                                        + Tenths(headersize),
                         left   |-> col_width * rooms[evs[i].location[1]],
                         width  |-> col_width - 2,
                         height |-> _timediff_to_y_pixels(evs[i].end[1], evs[i].start[1])
                                        - Tenths(2),
                         text   |-> HourMinute(evs[i].start[1], tz) \o " - "
                                        \o HourMinute(evs[i].end[1], tz) \o "<br/>"
                                        \o evs[i].summary[1]]
                            : i \in OnDay(evs, day)}]

\* sorted(days), as a sequence
RECURSIVE sorted_days(_)
sorted_days(days) ==
    IF days = {} THEN <<>>
    ELSE <<SetMin(days)>> \o sorted_days(days \ {SetMin(days)})

\* Aggregator.generate_html: one record for each schedwrap div, in output order
generate_html(fds, evs, tz) ==
    LET days == sorted_days({UtcDate(evs[i].start[1]) : i \in 1..Len(evs)})
    IN  [k \in 1..Len(days) |-> html_day(fds, evs, tz, days[k])]

\* the VEVENT blocks generate_ical writes for the events from index i on
RECURSIVE ical_events(_, _)
ical_events(evs, i) ==
    IF i > Len(evs) THEN ""
    ELSE "BEGIN:VEVENT\r\n"
           \o "DTSTART:" \o getstart(evs[i]) \o "\r\n"
           \o "DTEND:" \o getend(evs[i]) \o "\r\n"
           \o "SUMMARY:" \o evs[i].summary[1] \o "\r\n"
           \o "LOCATION:" \o (IF evs[i].location = None THEN "" ELSE evs[i].location[1]) \o "\r\n"
           \o "END:VEVENT\r\n"
           \o ical_events(evs, i + 1)

\* Aggregator.generate_ical
generate_ical(evs) ==
    "BEGIN:VCALENDAR\r\nVERSION:2.0\r\nPRODID:-//hagander/icalaggregator//NONSGML v1.0//EN\r\n"
      \o ical_events(evs, 1) \o "END:VCALENDAR\r\n"

(***************************************************************************)
(* Spec: __main__, from the Aggregator's construction to the HTML.         *)
(***************************************************************************)
\* capwords(name) of the options of the [rooms] section
RoomNames == {"Room A", "Room B"}

Urls == {"http://a/", "http://b/"}

VEvent(start, end, summary) ==
    <<"BEGIN:VEVENT\r\n", "DTSTART:" \o start \o "\r\n", "DTEND:" \o end \o "\r\n",
      "SUMMARY:" \o summary \o "\r\n", "UID:1\r\n", "END:VEVENT\r\n">>

VCalendar(vevents) ==
    <<"BEGIN:VCALENDAR\r\n", "VERSION:2.0\r\n">> \o vevents \o <<"END:VCALENDAR\r\n">>

\* what a url may serve
FeedDocs ==
    { VCalendar(VEvent("20100510T090000Z", "20100510T100000Z", "Keynote")),
      VCalendar(VEvent("20100510T093000Z", "20100510T103059Z", "Workshop")),
      VCalendar(VEvent("20100511T083000Z", "20100511T091500Z", "Breakfast")
                  \o VEvent("20100510T090000Z", "20100510T120000Z", "Long")
                  \o VEvent("20100510T090000Z", "20100510T100000Z", "Short")),
      VCalendar(VEvent("20100510T100000Z", "20100510T090000Z", "Backwards")),
      \* cut off before END:VCALENDAR
      <<"BEGIN:VCALENDAR\r\n">> \o VEvent("20100510T080000Z", "20100510T083000Z", "Cut") }

\* how many feeds the configuration names at most
MaxFeeds == 2

Init ==
    /\ web \in [Urls -> FeedDocs]
    /\ timezone \in TimezoneOffsets
    /\ timezone_adjust \in AdjustHours
    /\ feeds = <<>>
    /\ events = <<>>
    /\ pc = "config"
    /\ ical = None
    /\ html = None
    /\ idleEvent
    /\ idleParse

\* Aggregator.add_feed, called for each option of the [rooms] section
add_feed ==
    /\ pc = "config"
    /\ Len(feeds) < MaxFeeds
    /\ \E name \in RoomNames, url \in Urls : feeds' = Append(feeds, <<name, url>>)
    /\ UNCHANGED <<web, events, pc, ical, html, timezone, timezone_adjust,
                   eventVars, parseVars>>

\* Aggregator.pull_all: the loop over the feeds, then the sort.  An exception
\* of urlopen's reader or of the parser ends the run.
pull_all ==
    /\ pc = "config"
    /\ LET pulled == pull_from(1, feeds, web, events, timezone, timezone_adjust)
       IN  IF pulled.exc = "ok"
           THEN events' = sort(pulled.events) /\ pc' = "pulled"
           ELSE events' = pulled.events /\ pc' = "failed"
    /\ UNCHANGED <<web, feeds, ical, html, timezone, timezone_adjust,
                   eventVars, parseVars>>

\* f.write(a.generate_ical())
write_ical ==
    /\ pc = "pulled"
    /\ ical' = Some(generate_ical(events))
    /\ pc' = "ical"
    /\ UNCHANGED <<web, feeds, events, html, timezone, timezone_adjust,
                   eventVars, parseVars>>

\* f.write(a.generate_html())
write_html ==
    /\ pc = "ical"
    /\ html' = Some(generate_html(feeds, events, timezone))
    /\ pc' = "html"
    /\ UNCHANGED <<web, feeds, events, ical, timezone, timezone_adjust,
                   eventVars, parseVars>>

Next ==
    \/ add_feed
    \/ pull_all
    \/ write_ical
    \/ write_html

Spec == Init /\ [][Next]_vars

(***************************************************************************)
(* Properties.                                                             *)
(***************************************************************************)

\* C1: after pull_all returns normally the event list holds exactly the
\* events appended feed by feed (registration order, document order inside a
\* feed), ordered by start ascending, events of equal start in appended order.
C1_PullAllSortedStable ==
    pc = "pulled" =>
        LET app == pull_from(1, feeds, web, <<>>, timezone, timezone_adjust).events
        IN  /\ Len(events) = Len(app)
            /\ \A i, j \in 1..Len(events) :
                   i < j => events[i].start[1] <= events[j].start[1]
            /\ \A s \in {app[i].start[1] : i \in 1..Len(app)} :
                   LET At(e) == e.start[1] = s
                   IN  SelectSeq(events, At) = SelectSeq(app, At)

\* pull_all returned with four or more events, the sort moved some, and two
\* different events of equal start stand side by side
C1_Witness ==
    /\ pc = "pulled"
    /\ Len(events) >= 4
    /\ events # pull_from(1, feeds, web, <<>>, timezone, timezone_adjust).events
    /\ \E i \in 1..(Len(events) - 1) :
           events[i].start = events[i + 1].start /\ events[i] # events[i + 1]

AllAssigned(e) == e.summary # None /\ e.start # None /\ e.end # None

SameDisplayDate(e) == DateIn(e.start[1], e.timezone) = DateIn(e.end[1], e.timezone)

\* start is 23:30 in the display timezone and end is one hour later
LateNight(e) ==
    /\ e.start # None /\ e.end # None
    /\ (e.start[1] + e.timezone) % SecondsPerDay = 23 * 3600 + 30 * 60
    /\ e.end[1] = e.start[1] + 3600

\* C2 as stated: validate() succeeds exactly when summary, start and end have
\* all been assigned and start and end fall on the same display-timezone date.
C2_ValidateIffAssigned ==
    raised # None /\ raised.call = "validate" =>
        ((raised.exc = "ok") <=> (AllAssigned(event) /\ SameDisplayDate(event)))

\* C2 amended: validate() succeeds exactly when summary, start and end have all
\* been assigned, the summary is not the empty string, and start and end fall
\* on the same display-timezone date; an event from 23:30 to 00:30 the next
\* day in the display timezone is rejected.
C2_ValidateIffNonEmpty ==
    raised # None /\ raised.call = "validate" =>
        /\ (raised.exc = "ok") <=>
              (AllAssigned(event) /\ event.summary[1] # "" /\ SameDisplayDate(event))
        /\ LateNight(event) => raised.exc # "ok"

\* validate() has rejected a complete event that runs from 23:30 to 00:30 in
\* a display timezone other than UTC
C2_Witness ==
    /\ raised # None /\ raised = Call("validate", "Can't deal with cross-day events")
    /\ LateNight(event)
    /\ event.timezone # 0
    /\ event.summary = Some("Lunch, with sponsors")

\* C3 as stated: printing a stored instant and parsing the string again, with
\* the same adjustment, gives the instant back.
C3_RoundTripIdentity ==
    event # None =>
        /\ event.start # None =>
               _parse_time(event, _print_time(event, event.start[1])) = event.start
        /\ event.end # None =>
               _parse_time(event, _print_time(event, event.end[1])) = event.end

\* C3 amended: printing a stored instant and parsing the string again, with
\* the same adjustment, gives the instant moved by the adjustment's hours.
C3_RoundTripShifted ==
    event # None =>
        /\ event.start # None =>
               _parse_time(event, _print_time(event, event.start[1]))
                   = Some(event.start[1] + 3600 * event.timezone_adjust)
        /\ event.end # None =>
               _parse_time(event, _print_time(event, event.end[1]))
                   = Some(event.end[1] + 3600 * event.timezone_adjust)

\* setstart() has stored what it parsed from a string getstart() or getend()
\* printed, with seconds in it, under an adjustment that is not zero
C3_Witness ==
    /\ event # None /\ encoded # None /\ event.start # None
    /\ raised = Call("setstart", "ok")
    /\ event.timezone_adjust # 0
    /\ event.start[1] = strptime(encoded[1])[1] + 3600 * event.timezone_adjust
    /\ event.start[1] % 60 # 0

\* C4: the generator finishes normally only on an END:VCALENDAR logical line;
\* when the input runs out it raises.
C4_EndOfStreamRaises ==
    /\ pstate = "done" => l = Some("END:VCALENDAR")
    /\ (pstate \notin {"none", "running"} /\ l = None) => pstate = "End of stream"

\* the input ran out, with no END:VCALENDAR, after an event was yielded
C4_Witness ==
    /\ pstate = "End of stream"
    /\ l = None
    /\ r = <<>>
    /\ Len(yielded) = 1

\* the lines _parse_ical acts on
Interpreted(line) ==
    \/ line \in {"BEGIN:VEVENT", "END:VEVENT", "END:VCALENDAR"}
    \/ startswith(line, "DTSTART:")
    \/ startswith(line, "DTEND:")
    \/ startswith(line, "SUMMARY:")

\* C5: a logical line the parser does not interpret raises nothing and changes
\* neither the open event nor what has been yielded; the parser goes on.
C5_OtherLinesIgnored ==
    [][ LET nxt == readline(r).value
        IN  (pstate = "running" /\ nxt # None /\ ~Interpreted(nxt[1]))
                => (pstate' = "running" /\ currevent' = currevent /\ yielded' = yielded)
      ]_vars

\* the logical line C6 describes: the first physical line, and each following
\* line that begins with a space appended without that one space
RECURSIVE Unfold(_, _)
Unfold(s, rest) ==
    IF rest # <<>> /\ startswith(rest[1], " ")
    THEN Unfold(s \o SliceFrom(rest[1], 1), Tail(rest))
    ELSE s

\* C6: readline() returns the next physical line with each continuation line
\* appended less exactly one leading space.
C6_UnfoldStripsOneSpace ==
    [][ (pstate = "running" /\ r # <<>>) => l' = Some(Unfold(Head(r), Tail(r))) ]_vars

StructuralErrors ==
    {"Summary not set", "Start not set", "End not set",
     "Can't deal with cross-day events", "Recursive events?!",
     "End of nonexisting event?!", "End of stream"}

\* C7: a DTSTART:, DTEND: or SUMMARY: line read while no event is open raises
\* nothing, and the parser fails in the structural ways only.
C7_PropertyWhileIdleIgnored ==
    /\ (l # None /\ currevent = None
          /\ (startswith(l[1], "DTSTART:") \/ startswith(l[1], "DTEND:")
                \/ startswith(l[1], "SUMMARY:")))
           => pstate = "running"
    /\ pstate \in {"none", "running", "done"} \cup StructuralErrors

\* whole minutes in d seconds, the remainder cut off
TruncMinutes(d) == IF d >= 0 THEN d \div 60 ELSE -((-d) \div 60)

\* C8: a day's container spans from the least start to the greatest end of the
\* events that start on it, and no block of the day ends below the container.
C8_DayExtentMinStartMaxEnd ==
    html # None =>
        \A k \in 1..Len(html[1]) :
            LET d  == html[1][k]
                on == OnDay(events, d.day)
            IN  /\ d.firsttime = SetMin({events[i].start[1] : i \in on})
                /\ d.lasttime = SetMax({events[i].end[1] : i \in on})
                /\ \A b \in d.blocks : b.top + b.height <= d.height

\* C9: every length generate_html computes is 1.7 px for each whole minute
\* from the reference instant to the instant.
C9_PixelsAreMinutesScaled ==
    html # None =>
        \A k \in 1..Len(html[1]) :
            LET d == html[1][k]
            IN  /\ d.height - Tenths(headersize) = 17 * TruncMinutes(d.lasttime - d.firsttime)
                /\ \A b \in d.blocks :
                       LET e == events[b.event]
                       IN  /\ b.height + Tenths(2) = 17 * TruncMinutes(e.end[1] - e.start[1])
                           /\ b.top - Tenths(headersize)
                                  = 17 * TruncMinutes(e.start[1] - d.firsttime)

\* C10: every room header and every event block lies inside the width of its
\* day's container.
C10_BlocksInsideContainer ==
    html # None =>
        \A k \in 1..Len(html[1]) :
            LET d == html[1][k]
            IN  /\ \A h \in d.headers : h.left + h.width <= d.width
                /\ \A b \in d.blocks : b.left + b.width <= d.width

====
